---- MODULE Spec2Model ----
(***************************************************************************)
(* Model of backend/main.py: the credential resolution, the request        *)
(* signing routine make_request and the two route handlers generate_video  *)
(* and check_status, with requests.request as the transport.               *)
(*                                                                         *)
(* Representation.  Python str values are TLA+ strings, and an f-string is *)
(* the concatenation of its parts.  Query parameter keys and values are    *)
(* sequences of one-character strings, because sorted() compares them      *)
(* character by character; Flatten turns them into a string.  SHA-256 and  *)
(* HMAC-SHA256 are modelled as injective symbolic terms.  A parsed JSON    *)
(* value (a Python dict) is represented by its compact JSON text.          *)
(***************************************************************************)
EXTENDS Integers, Sequences, FiniteSets, TLC

VARIABLES
    env,          \* os.environ: JIMENG_ACCESS_KEY and JIMENG_SECRET_KEY
    pc,           \* where the invocation is: idle, awaiting (in requests.request), done
    handler,      \* the route handler that is running
    req,          \* its VideoRequest or StatusRequest
    creds,        \* the outcome of get_credentials
    mrArgs,       \* the arguments of make_request and the instant utcnow() gave
    signed,       \* the values make_request computed
    calls,        \* the calls of requests.request made in this invocation
    resp,         \* what requests.request returned or raised
    result,       \* what the handler returned or raised to the caller
    invocations,  \* handler invocations so far
    totalCalls    \* calls of requests.request so far

vars == <<env, pc, handler, req, creds, mrArgs, signed, calls, resp, result,
          invocations, totalCalls>>

\* ---------------------------------------------------------------- bounds
MaxInvocations == 2
MaxParams == 2

\* ------------------------------------------------------------- constants
HOST == "visual.volcengineapi.com"
REGION == "cn-north-1"
SERVICE == "visual"
VERSION == <<"2", "0", "2", "2", "-", "0", "8", "-", "3", "1">>

\* Python None (Optional[str] fields, os.environ.get of an unset variable)
None == "<None>"

\* Python truthiness of an Optional[str]
Truthy(v) == v # None /\ v # ""

\* ------------------------------------------------------- character strings
Action == <<"A", "c", "t", "i", "o", "n">>
Version == <<"V", "e", "r", "s", "i", "o", "n">>
task_id == <<"t", "a", "s", "k", "_", "i", "d">>
VisualGeneration ==
    <<"V", "i", "s", "u", "a", "l", "G", "e", "n", "e", "r", "a", "t", "i", "o", "n">>
GetVisualServiceTask ==
    <<"G", "e", "t", "V", "i", "s", "u", "a", "l", "S", "e", "r", "v", "i", "c", "e",
      "T", "a", "s", "k">>

\* ord() of the characters that occur in keys and values
CodePoint ==
    ("&" :> 38) @@ ("-" :> 45) @@ ("0" :> 48) @@ ("1" :> 49) @@ ("2" :> 50) @@
    ("3" :> 51) @@ ("8" :> 56) @@ ("=" :> 61) @@ ("A" :> 65) @@ ("B" :> 66) @@
    ("G" :> 71) @@ ("S" :> 83) @@ ("T" :> 84) @@ ("V" :> 86) @@ ("_" :> 95) @@
    ("a" :> 97) @@ ("b" :> 98) @@ ("c" :> 99) @@ ("d" :> 100) @@ ("e" :> 101) @@
    ("i" :> 105) @@ ("k" :> 107) @@ ("l" :> 108) @@ ("n" :> 110) @@ ("o" :> 111) @@
    ("r" :> 114) @@ ("s" :> 115) @@ ("t" :> 116) @@ ("u" :> 117) @@ ("v" :> 118)

RECURSIVE Flatten(_)
\* the str made of the characters of cs
Flatten(cs) == IF cs = <<>> THEN "" ELSE Head(cs) \o Flatten(Tail(cs))

RECURSIVE StrLess(_, _)
\* a < b for two str: code point by code point, a proper prefix is smaller
StrLess(a, b) ==
    IF b = <<>> THEN FALSE
    ELSE IF a = <<>> THEN TRUE
    ELSE IF Head(a) # Head(b) THEN CodePoint[Head(a)] < CodePoint[Head(b)]
    ELSE StrLess(Tail(a), Tail(b))

\* (k1, v1) < (k2, v2) for two items of a dict
ItemLess(x, y) == StrLess(x[1], y[1]) \/ (x[1] = y[1] /\ StrLess(x[2], y[2]))

\* --------------------------------------------------------------- dicts
\* A dict is the sequence of its items <<key, value>> in insertion order.

\* the positions of key k in dict d (at most one)
KeyIndex(d, k) == {i \in 1..Len(d) : d[i][1] = k}

\* d[k] = v: an existing key keeps its position, a new key is appended
DictSet(d, k, v) ==
    IF KeyIndex(d, k) # {}
    THEN [i \in 1..Len(d) |-> IF d[i][1] = k THEN <<k, v>> ELSE d[i]]
    ELSE Append(d, <<k, v>>)

RECURSIVE Insert(_, _)
Insert(x, s) ==
    IF s = <<>> THEN <<x>>
    ELSE IF ItemLess(x, Head(s)) THEN <<x>> \o s
    ELSE <<Head(s)>> \o Insert(x, Tail(s))

\* variant of Sorted: params.items() without sorted()
InputOrder(items) == items

RECURSIVE Sorted(_)
\* sorted(params.items())
Sorted(items) ==
    IF items = <<>> THEN <<>> ELSE Insert(Head(items), Sorted(Tail(items)))

\* f"{k}={v}"
FormatItem(x) == x[1] \o <<"=">> \o x[2]

RECURSIVE JoinAmp(_)
\* "&".join(parts)
JoinAmp(parts) ==
    IF parts = <<>> THEN <<>>
    ELSE IF Len(parts) = 1 THEN parts[1]
    ELSE parts[1] \o <<"&">> \o JoinAmp(Tail(parts))

\* ---------------------------------------------------------------- json
JsonString(s) == "\"" \o s \o "\""

RECURSIVE JsonMembers(_)
JsonMembers(d) ==
    IF d = <<>> THEN ""
    ELSE JsonString(d[1][1]) \o ":" \o d[1][2]
         \o (IF Len(d) = 1 THEN "" ELSE "," \o JsonMembers(Tail(d)))

\* json.dumps(body, separators=(',', ':')): the members' values are JSON texts
JsonDumps(d) == "{" \o JsonMembers(d) \o "}"

\* ------------------------------------------------------------- hashing
\* hashlib.sha256(b).hexdigest(), as an injective term
Sha256Hex(b) == "sha256(" \o b \o ")"

\* hmac.new(key, msg, sha256), as an injective term
sign(key, msg) == "hmac(" \o key \o "," \o msg \o ")"

get_signature_key(key, dateStamp, regionName, serviceName) ==
    LET kDate == sign(key, dateStamp)
        kRegion == sign(kDate, regionName)
        kService == sign(kRegion, serviceName)
        kSigning == sign(kService, "request")
    IN  kSigning

\* ------------------------------------------------------- make_request
\* datetime.datetime.utcnow(): the instants the clock may show
Times == {[date |-> "20241231", time |-> "235959"],
          [date |-> "20250101", time |-> "000000"]}

\* if body: json.dumps(...).encode('utf-8') else b""
BodyBytes(body) == IF body # <<>> THEN JsonDumps(body) ELSE ""

\* params["Action"] = action; params["Version"] = VERSION
WithActionVersion(params, action) ==
    DictSet(DictSet(params, Action, action), Version, VERSION)

\* "&".join([f"{k}={v}" for k, v in sorted(params.items())])
CanonicalQueryString(params) ==
    LET items == Sorted(params)
    IN  JoinAmp([i \in 1..Len(items) |-> FormatItem(items[i])])

CanonicalHeaders(content_type, payload_hash, amz_date) ==
    "content-type:" \o content_type \o "\n"
    \o "host:" \o HOST \o "\n"
    \o "x-content-sha256:" \o payload_hash \o "\n"
    \o "x-date:" \o amz_date \o "\n"

CanonicalRequest(method, path, query, canonical_headers, signed_headers, payload_hash) ==
    method \o "\n" \o path \o "\n" \o query \o "\n"
    \o canonical_headers \o "\n" \o signed_headers \o "\n" \o payload_hash

\* variant of requests_request: the call always goes out as a POST
requests_request_post(method, url, headers, data) ==
    [method |-> "POST", url |-> url, headers |-> headers, data |-> data]

\* requests.request(method, url, headers=headers, data=body_bytes): the call
\* the transport receives
requests_request(method, url, headers, data) ==
    [method |-> method, url |-> url, headers |-> headers, data |-> data]

\* the whole of make_request up to the call of requests.request: the values it
\* computes (its locals) and the arguments it hands to the transport
make_request(ak, sk, action, params0, body, method, t) ==
    LET path == "/"
        content_type == "application/json"
        body_bytes == BodyBytes(body)
        amz_date == t.date \o "T" \o t.time \o "Z"
        date_stamp == t.date
        params == WithActionVersion(params0, action)
        canonical_querystring == Flatten(CanonicalQueryString(params))
        payload_hash == Sha256Hex(body_bytes)
        canonical_headers == CanonicalHeaders(content_type, payload_hash, amz_date)
        signed_headers == "content-type;host;x-content-sha256;x-date"
        canonical_request ==
            CanonicalRequest(method, path, canonical_querystring, canonical_headers,
                             signed_headers, payload_hash)
        algorithm == "HMAC-SHA256"
        credential_scope == date_stamp \o "/" \o REGION \o "/" \o SERVICE \o "/request"
        string_to_sign ==
            algorithm \o "\n" \o amz_date \o "\n" \o credential_scope \o "\n"
            \o Sha256Hex(canonical_request)
        signing_key == get_signature_key(sk, date_stamp, REGION, SERVICE)
        signature == sign(signing_key, string_to_sign)
        authorization_header ==
            algorithm \o " Credential=" \o ak \o "/" \o credential_scope \o ", "
            \o "SignedHeaders=" \o signed_headers \o ", Signature=" \o signature
        url == "https://" \o HOST \o path \o "?" \o canonical_querystring
        headers == [ContentType |-> content_type, XDate |-> amz_date,
                    XContentSha256 |-> payload_hash,
                    Authorization |-> authorization_header, Host |-> HOST]
    IN  [params |-> params,
         canonical_querystring |-> canonical_querystring,
         payload_hash |-> payload_hash,
         canonical_headers |-> canonical_headers,
         canonical_request |-> canonical_request,
         string_to_sign |-> string_to_sign,
         signature |-> signature,
         sent |-> requests_request(method, url, headers, body_bytes)]

\* -------------------------------------------------- values and exceptions
NoResult == [kind |-> "none"]
NoResp == [kind |-> "none"]
NoCreds == [kind |-> "none"]
NoArgs == [kind |-> "none"]
NoSigned == [kind |-> "none"]
NoReq == [kind |-> "none"]

\* Exception(message)
PyException(message) == [kind |-> "Exception", message |-> message]

\* HTTPException(status_code=..., detail=...): raised out of a handler it is
\* the response the caller receives
HTTPException(status_code, detail) ==
    [kind |-> "HTTPException", status_code |-> status_code, content |-> detail]

\* return data: the caller receives HTTP 200 with data as the JSON body
Return(data) == [kind |-> "return", status_code |-> 200, content |-> data]

\* str(e): the message of a plain exception; "<status_code>: <detail>" for an
\* HTTPException (starlette's HTTPException.__str__)
PyStr(e) ==
    IF e.kind = "HTTPException"
    THEN ToString(e.status_code) \o ": " \o e.content
    ELSE e.message

\* str(data) of a dict
PyStrDict(data) == "str(" \o data \o ")"

\* ---------------------------------------------------- get_credentials
\* variant of get_credentials: fails only when both keys are missing
get_credentials_either(req_ak, req_sk, e) ==
    LET ak == IF Truthy(req_ak) THEN req_ak ELSE e.JIMENG_ACCESS_KEY
        sk == IF Truthy(req_sk) THEN req_sk ELSE e.JIMENG_SECRET_KEY
    IN  IF ~Truthy(ak) /\ ~Truthy(sk)
        THEN [raised |-> TRUE, exc |-> PyException("Missing Credentials")]
        ELSE [raised |-> FALSE, ak |-> ak, sk |-> sk]

\* variant of get_credentials: the environment takes precedence over the request
get_credentials_env_first(req_ak, req_sk, e) ==
    LET ak == IF Truthy(e.JIMENG_ACCESS_KEY) THEN e.JIMENG_ACCESS_KEY ELSE req_ak
        sk == IF Truthy(e.JIMENG_SECRET_KEY) THEN e.JIMENG_SECRET_KEY ELSE req_sk
    IN  IF ~Truthy(ak) \/ ~Truthy(sk)
        THEN [raised |-> TRUE, exc |-> PyException("Missing Credentials")]
        ELSE [raised |-> FALSE, ak |-> ak, sk |-> sk]

\* e is os.environ
get_credentials(req_ak, req_sk, e) ==
    LET ak == IF Truthy(req_ak) THEN req_ak ELSE e.JIMENG_ACCESS_KEY
        sk == IF Truthy(req_sk) THEN req_sk ELSE e.JIMENG_SECRET_KEY
    IN  IF ~Truthy(ak) \/ ~Truthy(sk)
        THEN [raised |-> TRUE, exc |-> PyException("Missing Credentials")]
        ELSE [raised |-> FALSE, ak |-> ak, sk |-> sk]

\* ------------------------------------------------- upstream responses
TextTask == "{\"data\":{\"task_id\":\"t1\"}}"
TextError == "{\"ResponseMetadata\":{\"Error\":{\"Message\":\"bad prompt\"}}}"
TextNotJson == "not json"
TextWrapped == "{\"text\":\"not json\"}"
TextSpaced == "{ \"status\": \"ok\" }"
TextEmpty == ""

Texts == {TextTask, TextError, TextNotJson, TextWrapped, TextSpaced, TextEmpty}
Statuses == {200, 201, 204, 400, 429, 500}
Causes == {"Connection reset by peer", "Read timed out"}

\* resp.json() returns (TRUE) or raises (FALSE)
Parseable(text) == text \in {TextTask, TextError, TextWrapped, TextSpaced}

\* resp.json(): the parsed value, written as compact JSON
JsonLoads(text) == IF text = TextSpaced THEN "{\"status\":\"ok\"}" ELSE text

\* {"text": resp.text}
TextDict(text) == "{\"text\":" \o JsonString(text) \o "}"

\* try: data = resp.json()  except: data = {"text": resp.text}
ResponseData(rsp) ==
    IF Parseable(rsp.text) THEN JsonLoads(rsp.text) ELSE TextDict(rsp.text)

\* ------------------------------------------------------ generate_video
\* variant of generate_video_except: the exception is swallowed
generate_video_swallow(e) == Return("{}")

\* except Exception as e: raise HTTPException(status_code=500, detail=str(e))
generate_video_except(e) == HTTPException(500, PyStr(e))

generate_video_body(r) ==
    << <<"req_key", JsonString("video_generation")>>,
       <<"text_prompts", "[" \o JsonString(r.prompt) \o "]">>,
       <<"ratio", JsonString(r.ratio)>> >>

\* the handler up to the transport call: the next values of the invocation's
\* state, t being the instant utcnow() returns
generate_video_begin(r, e, t) ==
    LET c == get_credentials(r.access_key, r.secret_key, e)
    IN  IF c.raised
        THEN [pc |-> "done", creds |-> c, mrArgs |-> NoArgs, signed |-> NoSigned,
              calls |-> <<>>, result |-> generate_video_except(c.exc)]
        ELSE LET args == [ak |-> c.ak, sk |-> c.sk, action |-> VisualGeneration,
                          params |-> <<>>, body |-> generate_video_body(r),
                          method |-> "POST", t |-> t]
                 m == make_request(args.ak, args.sk, args.action, args.params,
                                   args.body, args.method, args.t)
             IN  [pc |-> "awaiting", creds |-> c, mrArgs |-> args, signed |-> m,
                  calls |-> <<m.sent>>, result |-> NoResult]

\* variant of generate_video_resume: the status test is inverted
generate_video_resume_inverted(rsp) ==
    IF rsp.kind = "raise"
    THEN generate_video_except(rsp.exc)
    ELSE LET data == ResponseData(rsp)
         IN  IF rsp.status_code = 200
             THEN generate_video_except(HTTPException(rsp.status_code, PyStrDict(data)))
             ELSE Return(data)

\* the handler from the point where requests.request returns rsp or raises
generate_video_resume(rsp) ==
    IF rsp.kind = "raise"
    THEN generate_video_except(rsp.exc)
    ELSE LET data == ResponseData(rsp)
         IN  IF rsp.status_code # 200
             THEN generate_video_except(HTTPException(rsp.status_code, PyStrDict(data)))
             ELSE Return(data)

\* -------------------------------------------------------- check_status
\* except Exception as e: raise HTTPException(status_code=500, detail=str(e))
check_status_except(e) == HTTPException(500, PyStr(e))

\* variant of check_status_begin: the status query is sent twice
check_status_begin_poll(r, e, t) ==
    LET c == get_credentials(r.access_key, r.secret_key, e)
    IN  IF c.raised
        THEN [pc |-> "done", creds |-> c, mrArgs |-> NoArgs, signed |-> NoSigned,
              calls |-> <<>>, result |-> check_status_except(c.exc)]
        ELSE LET args == [ak |-> c.ak, sk |-> c.sk, action |-> GetVisualServiceTask,
                          params |-> << <<task_id, r.task_id>> >>, body |-> <<>>,
                          method |-> "GET", t |-> t]
                 m == make_request(args.ak, args.sk, args.action, args.params,
                                   args.body, args.method, args.t)
             IN  [pc |-> "awaiting", creds |-> c, mrArgs |-> args, signed |-> m,
                  calls |-> <<m.sent, m.sent>>, result |-> NoResult]

\* the handler up to the transport call
check_status_begin(r, e, t) ==
    LET c == get_credentials(r.access_key, r.secret_key, e)
    IN  IF c.raised
        THEN [pc |-> "done", creds |-> c, mrArgs |-> NoArgs, signed |-> NoSigned,
              calls |-> <<>>, result |-> check_status_except(c.exc)]
        ELSE LET args == [ak |-> c.ak, sk |-> c.sk, action |-> GetVisualServiceTask,
                          params |-> << <<task_id, r.task_id>> >>, body |-> <<>>,
                          method |-> "GET", t |-> t]
                 m == make_request(args.ak, args.sk, args.action, args.params,
                                   args.body, args.method, args.t)
             IN  [pc |-> "awaiting", creds |-> c, mrArgs |-> args, signed |-> m,
                  calls |-> <<m.sent>>, result |-> NoResult]

\* the handler from the point where requests.request returns rsp or raises
check_status_resume(rsp) ==
    IF rsp.kind = "raise"
    THEN check_status_except(rsp.exc)
    ELSE LET data == ResponseData(rsp)
         IN  IF rsp.status_code # 200
             THEN check_status_except(HTTPException(rsp.status_code, PyStrDict(data)))
             ELSE Return(data)

\* ------------------------------------------------------------- inputs
RequestAccessKeys == {None, "", "REQ_AK"}
RequestSecretKeys == {None, "", "REQ_SK"}
EnvAccessKeys == {None, "", "ENV_AK"}
EnvSecretKeys == {None, "", "ENV_SK"}
Prompts == {"a cat", "dog"}
Ratios == {"16:9", "9:16"}
TaskIds == {<<"t", "1">>, <<>>}

VideoRequests ==
    [prompt : Prompts, access_key : RequestAccessKeys, secret_key : RequestSecretKeys,
     ratio : Ratios]

StatusRequests ==
    [task_id : TaskIds, access_key : RequestAccessKeys, secret_key : RequestSecretKeys]

\* ------------------------------------------------------ the gateway
Init ==
    /\ env \in [JIMENG_ACCESS_KEY : EnvAccessKeys, JIMENG_SECRET_KEY : EnvSecretKeys]
    /\ pc = "idle"
    /\ handler = "none"
    /\ req = NoReq
    /\ creds = NoCreds
    /\ mrArgs = NoArgs
    /\ signed = NoSigned
    /\ calls = <<>>
    /\ resp = NoResp
    /\ result = NoResult
    /\ invocations = 0
    /\ totalCalls = 0

\* the state of an invocation after the handler ran up to its transport call
Begin(name, r, nxt) ==
    /\ pc = "idle"
    /\ invocations < MaxInvocations
    /\ handler' = name
    /\ req' = r
    /\ pc' = nxt.pc
    /\ creds' = nxt.creds
    /\ mrArgs' = nxt.mrArgs
    /\ signed' = nxt.signed
    /\ calls' = nxt.calls
    /\ result' = nxt.result
    /\ resp' = NoResp
    /\ invocations' = invocations + 1
    /\ totalCalls' = totalCalls + Len(nxt.calls)
    /\ UNCHANGED env

\* POST /api/generate_video
generate_video ==
    \E r \in VideoRequests, t \in Times :
        Begin("generate_video", r, generate_video_begin(r, env, t))

\* POST /api/check_status
check_status ==
    \E r \in StatusRequests, t \in Times :
        Begin("check_status", r, check_status_begin(r, env, t))

\* the rest of the handler that is waiting in requests.request
Resume(rsp) ==
    /\ pc = "awaiting"
    /\ resp' = rsp
    /\ result' = IF handler = "generate_video"
                 THEN generate_video_resume(rsp)
                 ELSE check_status_resume(rsp)
    /\ pc' = "done"
    /\ UNCHANGED <<env, handler, req, creds, mrArgs, signed, calls, invocations,
                   totalCalls>>

\* requests.request returns the upstream's response
TransportReturns ==
    \E s \in Statuses, text \in Texts :
        Resume([kind |-> "response", status_code |-> s, text |-> text])

\* requests.request raises (DNS, TLS, timeout, connection reset)
TransportRaises ==
    \E cause \in Causes :
        Resume([kind |-> "raise", exc |-> PyException(cause)])

\* the response is delivered; nothing of the invocation is kept
Respond ==
    /\ pc = "done"
    /\ pc' = "idle"
    /\ handler' = "none"
    /\ req' = NoReq
    /\ creds' = NoCreds
    /\ mrArgs' = NoArgs
    /\ signed' = NoSigned
    /\ calls' = <<>>
    /\ resp' = NoResp
    /\ result' = NoResult
    /\ UNCHANGED <<env, invocations, totalCalls>>

Next == generate_video \/ check_status \/ TransportReturns \/ TransportRaises \/ Respond

Spec == Init /\ [][Next]_vars

\* ------------------------------------------- make_request on its own
\* make_request applied to arbitrary query parameters
SignParamKeys == {<<"a">>, <<"b">>, <<"B">>, task_id, Action}
SignParamValues == {<<"1">>, <<"2">>}
SignItems == SignParamKeys \X SignParamValues

\* the dicts of at most n items over SignItems, in every insertion order
Dicts(n) ==
    UNION {{d \in [1..k -> SignItems] :
              \A i, j \in 1..k : i # j => d[i][1] # d[j][1]} : k \in 0..n}

SignArgs ==
    {[ak |-> "AK", sk |-> "SK", action |-> c.action, params |-> d, body |-> c.body,
      method |-> c.method, t |-> t] :
        c \in {[action |-> VisualGeneration, method |-> "POST",
                body |-> generate_video_body([prompt |-> "a cat", ratio |-> "16:9"])],
               [action |-> GetVisualServiceTask, method |-> "GET", body |-> <<>>]},
        d \in Dicts(MaxParams), t \in Times}

InitSign ==
    /\ env = [JIMENG_ACCESS_KEY |-> None, JIMENG_SECRET_KEY |-> None]
    /\ pc = "args"
    /\ handler = "make_request"
    /\ req = NoReq
    /\ creds = NoCreds
    /\ mrArgs \in SignArgs
    /\ signed = NoSigned
    /\ calls = <<>>
    /\ resp = NoResp
    /\ result = NoResult
    /\ invocations = 0
    /\ totalCalls = 0

make_request_call ==
    /\ pc = "args"
    /\ signed' = make_request(mrArgs.ak, mrArgs.sk, mrArgs.action, mrArgs.params,
                              mrArgs.body, mrArgs.method, mrArgs.t)
    /\ calls' = <<signed'.sent>>
    /\ totalCalls' = totalCalls + 1
    /\ pc' = "sent"
    /\ UNCHANGED <<env, handler, req, creds, mrArgs, resp, result, invocations>>

NextSign == make_request_call

SpecSign == InitSign /\ [][NextSign]_vars

\* =================================================================== claims
InInvocation == pc \in {"awaiting", "done"}

\* both keys can be resolved from the request or from the environment
CredentialsResolve(r, e) ==
    /\ Truthy(r.access_key) \/ Truthy(e.JIMENG_ACCESS_KEY)
    /\ Truthy(r.secret_key) \/ Truthy(e.JIMENG_SECRET_KEY)

IsResponse == pc = "done" /\ resp.kind = "response"

\* C1: whenever the access key or the secret key cannot be resolved from the
\* request or the environment, the invocation ends in the Missing Credentials
\* failure and the transport is never called in that invocation.
C1_MissingCredentialsNoCall ==
    (InInvocation /\ ~CredentialsResolve(req, env)) =>
        /\ pc = "done"
        /\ calls = <<>>
        /\ resp = NoResp
        /\ result.kind = "HTTPException"
        /\ result.content = "Missing Credentials"

C1_Witness ==
    /\ pc = "done"
    /\ handler = "check_status"
    /\ Truthy(req.access_key)
    /\ ~Truthy(req.secret_key) /\ ~Truthy(env.JIMENG_SECRET_KEY)
    /\ calls = <<>>
    /\ result.content = "Missing Credentials"

\* the value a key resolves to: the request's if non-empty, else the environment's
Resolved(request_value, env_value) ==
    IF request_value \in {None, ""} THEN env_value ELSE request_value

\* C2: each key resolves to the request value if non-empty, otherwise to the
\* environment variable; get_credentials returns a pair exactly when both
\* resolve to a non-empty value, and fails with Missing Credentials otherwise.
C2_ResolutionOrder ==
    InInvocation =>
        LET ak == Resolved(req.access_key, env.JIMENG_ACCESS_KEY)
            sk == Resolved(req.secret_key, env.JIMENG_SECRET_KEY)
        IN  /\ creds.raised <=> (ak \in {None, ""} \/ sk \in {None, ""})
            /\ creds.raised => creds.exc = PyException("Missing Credentials")
            /\ ~creds.raised => creds.ak = ak /\ creds.sk = sk

C2_Witness ==
    /\ InInvocation
    /\ req.access_key = "REQ_AK" /\ env.JIMENG_ACCESS_KEY = "ENV_AK"
    /\ req.secret_key = "" /\ env.JIMENG_SECRET_KEY = "ENV_SK"
    /\ ~creds.raised
    /\ creds.ak = "REQ_AK" /\ creds.sk = "ENV_SK"

\* C3: an invocation whose credentials resolve performs exactly one transport
\* call: one is issued, and none is added after a non-200 response, an
\* unparseable response or a transport failure.
C3_ExactlyOneCall ==
    /\ (InInvocation /\ CredentialsResolve(req, env)) => Len(calls) = 1
    /\ totalCalls <= invocations

C3_Witness ==
    /\ pc = "done"
    /\ handler = "check_status"
    /\ resp.kind = "response" /\ resp.status_code = 500 /\ resp.text = TextNotJson
    /\ Len(calls) = 1
    /\ totalCalls = 2

\* C4: a non-2xx upstream status s with a JSON body holding an error object
\* reaches the caller as an error response with status s.
C4_UpstreamStatusPreserved ==
    (IsResponse /\ resp.status_code \notin 200..299 /\ resp.text = TextError) =>
        /\ result.kind = "HTTPException"
        /\ result.status_code = resp.status_code

\* C5 (as claimed): every 2xx response with parseable JSON is returned to the
\* caller unmodified as a success.
C5_Every2xxJsonIsSuccess ==
    (IsResponse /\ resp.status_code \in 200..299 /\ Parseable(resp.text)) =>
        result = Return(JsonLoads(resp.text))

\* C5 (amended): a response with status 200 and parseable JSON is returned to
\* the caller unmodified as a success; a response with any other status, 201
\* and 204 included, reaches the caller as an error response.
C5_Status200JsonIsSuccess ==
    IsResponse =>
        /\ (resp.status_code = 200 /\ Parseable(resp.text)) =>
               /\ result.kind = "return"
               /\ result.status_code = 200
               /\ result.content = JsonLoads(resp.text)
        /\ resp.status_code # 200 => result.kind = "HTTPException"

C5_Witness ==
    /\ IsResponse
    /\ resp.status_code = 200 /\ resp.text = TextSpaced
    /\ result.kind = "return" /\ result.content = "{\"status\":\"ok\"}"

\* C6: a 200 response whose body is not parseable JSON reaches the caller as a
\* result that is not a success.
C6_MalformedIsNotSuccess ==
    (IsResponse /\ resp.status_code = 200 /\ ~Parseable(resp.text)) =>
        result.kind # "return"

\* C7: when the transport raises, the invocation ends with a server-error
\* response whose detail is the description of the cause, never with a success
\* and never without a result.
C7_TransportFailureSurfaced ==
    (pc = "done" /\ resp.kind = "raise") =>
        /\ result.kind = "HTTPException"
        /\ result.status_code = 500
        /\ result.content = resp.exc.message

C7_Witness ==
    /\ pc = "done"
    /\ handler = "generate_video"
    /\ resp.kind = "raise" /\ resp.exc.message = "Read timed out"
    /\ result.status_code = 500 /\ result.content = "Read timed out"

\* C8: the Missing Credentials failure reaches the caller with a 4xx status.
C8_MissingCredentialsIsClientError ==
    (pc = "done" /\ ~CredentialsResolve(req, env)) =>
        /\ result.kind = "HTTPException"
        /\ result.status_code \in 400..499

\* the orders in which the items of dict d can have been inserted
InsertionOrders(d) ==
    {[i \in 1..Len(d) |-> d[p[i]]] :
        p \in {q \in [1..Len(d) -> 1..Len(d)] :
                  \A i, j \in 1..Len(d) : i # j => q[i] # q[j]}}

\* the keys of the items of s ascend strictly
Ascending(s) == \A i, j \in 1..Len(s) : i < j => StrLess(s[i][1], s[j][1])

\* C9: the order in which the query parameters were inserted does not affect
\* the result: every insertion order of the same items gives the same
\* canonical query string, URL and signature, and the canonical query string
\* lists the items, Action and Version included, in ascending key order.
C9_QueryOrderIndependent ==
    pc = "sent" =>
        /\ \A d \in InsertionOrders(mrArgs.params) :
               LET m == make_request(mrArgs.ak, mrArgs.sk, mrArgs.action, d,
                                     mrArgs.body, mrArgs.method, mrArgs.t)
               IN  /\ m.canonical_querystring = signed.canonical_querystring
                   /\ m.sent.url = calls[1].url
                   /\ m.signature = signed.signature
        /\ \E s \in InsertionOrders(signed.params) :
               /\ Ascending(s)
               /\ \E i \in 1..Len(s) : s[i] = <<Action, mrArgs.action>>
               /\ \E i \in 1..Len(s) : s[i] = <<Version, VERSION>>
               /\ signed.canonical_querystring =
                      Flatten(JoinAmp([i \in 1..Len(s) |-> FormatItem(s[i])]))

C9_Witness ==
    /\ pc = "sent"
    /\ mrArgs.params = << <<<<"b">>, <<"2">>>>, <<<<"a">>, <<"1">>>> >>
    /\ mrArgs.action = GetVisualServiceTask
    /\ signed.canonical_querystring =
           "Action=GetVisualServiceTask&Version=2022-08-31&a=1&b=2"

\* C10: what is signed is what is sent.  The canonical request is made of the
\* method, query string, header values and body hash of the call the transport
\* receives; the body sent is the body hashed (empty for the GET status
\* action); the Authorization header carries the signature of that canonical
\* request.
C10_SignedIsSent ==
    (InInvocation /\ ~creds.raised) =>
        \A n \in 1..Len(calls) :
            LET sent == calls[n]
                h == sent.headers
                canonical_headers ==
                    "content-type:" \o h.ContentType \o "\n"
                    \o "host:" \o h.Host \o "\n"
                    \o "x-content-sha256:" \o h.XContentSha256 \o "\n"
                    \o "x-date:" \o h.XDate \o "\n"
                signed_headers == "content-type;host;x-content-sha256;x-date"
                scope == mrArgs.t.date \o "/" \o REGION \o "/" \o SERVICE \o "/request"
            IN  /\ sent.method = mrArgs.method
                /\ sent.url = "https://" \o h.Host \o "/?" \o signed.canonical_querystring
                /\ h.XContentSha256 = Sha256Hex(sent.data)
                /\ handler = "check_status" => sent.method = "GET" /\ sent.data = ""
                /\ handler = "generate_video" =>
                       sent.method = "POST" /\ sent.data = JsonDumps(mrArgs.body)
                /\ signed.canonical_request =
                       sent.method \o "\n" \o "/" \o "\n"
                       \o signed.canonical_querystring \o "\n"
                       \o canonical_headers \o "\n" \o signed_headers \o "\n"
                       \o Sha256Hex(sent.data)
                /\ h.Authorization =
                       "HMAC-SHA256 Credential=" \o creds.ak \o "/" \o scope
                       \o ", SignedHeaders=" \o signed_headers \o ", Signature="
                       \o sign(get_signature_key(creds.sk, mrArgs.t.date, REGION, SERVICE),
                               "HMAC-SHA256\n" \o h.XDate \o "\n" \o scope \o "\n"
                               \o Sha256Hex(signed.canonical_request))

C10_Witness ==
    /\ pc = "awaiting"
    /\ handler = "check_status"
    /\ Len(calls) = 1
    /\ calls[1].method = "GET"
    /\ calls[1].data = ""
    /\ calls[1].url =
           "https://visual.volcengineapi.com/?Action=GetVisualServiceTask&Version=2022-08-31&task_id=t1"

====
